---------------------------- MODULE Spec2Model ----------------------------
(***************************************************************************)
(* Model of the kb-site front end: the caching loader of src/src/App.tsx   *)
(* (fetch, normalize, fall back to the 'kb_cache' entry or the built-in    *)
(* record), the refreshing loader of src/unnamed/part_004 (load effect     *)
(* keyed on reloadToken, abortable fetch) and the record mappings the      *)
(* loaders apply.                                                          *)
(*                                                                         *)
(* JavaScript values are tagged records: k names the type.  A string is    *)
(* the sequence of its characters, an array the sequence of its elements,  *)
(* an object the function from its own property names to their values.     *)
(***************************************************************************)
EXTENDS Integers, Sequences, FiniteSets, TLC

VARIABLES
  \* caching loader (src/src/App.tsx)
  cItems,        \* useState items: null or whatever setItems was given
  cError,        \* useState error: null or a message
  kb_cache,      \* localStorage entry 'kb_cache': null (absent) or a text
  cLoads,        \* the load() calls so far: cancelled flag and position
  cLast,         \* the last step a load took (observation)
  \* refreshing loader (src/unnamed/part_004)
  items, error, loading, lastUpdated, reloadToken,
  effectToken,   \* the reloadToken the load effect last ran for
  loads,         \* the load effects so far: canceled, aborted, position
  now,           \* the clock new Date() reads: later at every reading
  last,          \* the last step a load took (observation)
  \* record mappings, applied to drawn inputs
  raw, out,
  \* the filters of src/unnamed/part_004
  query, selectedTag, selectedCollection,
  tagClicks,     \* the last clicks on one tag, uninterrupted (observation)
  \* dark mode of src/unnamed/part_004
  darkMode,      \* useState darkMode, as last rendered
  darkUpdates,   \* the setDarkMode calls not yet rendered
  darkStore,     \* localStorage entry 'kb-site:dark-mode': null or a string
  darkDeps,      \* the darkMode the storing effect last ran with
  darkPhase,     \* "initial", "remount" (StrictMode's second run is due),
                 \* "mounted"
  darkBoot,      \* how the page opened: the stored flag, StrictMode or not
  darkToggled    \* the toggle was clicked (observation)

cacheVars   == <<cItems, cError, kb_cache, cLoads, cLast>>
refreshVars == <<items, error, loading, lastUpdated, reloadToken, effectToken,
                 loads, now, last>>
pureVars    == <<raw, out>>
viewVars    == <<query, selectedTag, selectedCollection, tagClicks>>
darkVars    == <<darkMode, darkUpdates, darkStore, darkDeps, darkPhase,
                 darkBoot, darkToggled>>
uiVars      == <<viewVars, darkVars>>
vars        == <<cacheVars, refreshVars, pureVars, uiVars>>

---------------------------------------------------------------------------
(* Bounds of the model *)

MaxToken == 2   \* bumps of reloadToken
MaxLen == 2     \* records in a drawn list
MaxPending == 3 \* setDarkMode calls waiting for a render
MaxItems == 3   \* records in a list drawn for the views

---------------------------------------------------------------------------
(* JavaScript values *)

Undef == [k |-> "undefined"]
Null == [k |-> "null"]
Str(s) == [k |-> "string", s |-> s]
Num(n) == [k |-> "number", n |-> n]
Arr(a) == [k |-> "array", a |-> a]
Obj(p) == [k |-> "object", p |-> p]

EmptyObj == Obj([f \in {} |-> Undef])

\* x ?? y tests x against null and undefined
Nullish(v) == v.k \in {"undefined", "null"}

Coalesce(v, d) == IF Nullish(v) THEN d ELSE v

\* ToBoolean: the falsy values are undefined, null, "", 0 (false, NaN unused)
Truthy(v) ==
  CASE v.k = "undefined" -> FALSE
    [] v.k = "null" -> FALSE
    [] v.k = "string" -> v.s # <<>>
    [] v.k = "number" -> v.n # 0
    [] OTHER -> TRUE

IsArray(v) == v.k = "array"

\* v.f for a v that is neither null nor undefined: own property or undefined
Get(v, f) == IF v.k = "object" /\ f \in DOMAIN v.p THEN v.p[f] ELSE Undef

Digits == <<"0", "1", "2", "3", "4", "5", "6", "7", "8", "9">>

RECURSIVE NumStr(_)
NumStr(n) ==
  IF n < 10 THEN <<Digits[n + 1]>>
  ELSE NumStr(n \div 10) \o <<Digits[(n % 10) + 1]>>

RECURSIVE JoinComma(_)
RECURSIVE ToStr(_)
\* String(v), the characters
ToStr(v) ==
  CASE v.k = "string" -> v.s
    [] v.k = "number" -> NumStr(v.n)
    [] v.k = "undefined" -> <<"u","n","d","e","f","i","n","e","d">>
    [] v.k = "null" -> <<"n","u","l","l">>
    [] v.k = "array" -> JoinComma(v.a)
    [] OTHER -> <<"[","o","b","j","e","c","t"," ","O","b","j","e","c","t","]">>

JoinComma(a) ==
  IF a = <<>> THEN <<>>
  ELSE LET h == IF Nullish(a[1]) THEN <<>> ELSE ToStr(a[1])
       IN IF Len(a) = 1 THEN h ELSE h \o <<",">> \o JoinComma(Tail(a))

JSString(v) == Str(ToStr(v))

---------------------------------------------------------------------------
(* JSON texts: localStorage values and response bodies *)

\* a text that parses, named by the value it parses to
JsonText(v) == [valid |-> TRUE, v |-> v]
\* a text that does not parse, by its characters; "" is one of them
BadText(s) == [valid |-> FALSE, s |-> s]

RECURSIVE ToJSON(_)
\* what JSON keeps of a value: undefined properties are dropped, undefined
\* array elements become null
ToJSON(v) ==
  CASE v.k = "array" ->
         Arr([i \in 1..Len(v.a) |->
                IF v.a[i].k = "undefined" THEN Null ELSE ToJSON(v.a[i])])
    [] v.k = "object" ->
         Obj([f \in {g \in DOMAIN v.p : v.p[g].k # "undefined"} |->
                ToJSON(v.p[f])])
    [] OTHER -> v

JSONStringify(v) == JsonText(ToJSON(v))

JSONParseThrows(t) == ~t.valid

JSONParse(t) == t.v

\* if (cached): a string is truthy unless empty; null (no entry) is falsy
TextTruthy(t) == t # Null /\ (t.valid \/ t.s # <<>>)

---------------------------------------------------------------------------
(* src/src/App.tsx: constants and normalize *)

LOCAL_FALLBACK ==
  Arr(<<Obj([
    id |-> Str(<<"v","f","_","l","o","o","p","_","g","u","a","r","d","_","0","0","1">>),
    project |-> Str(<<"V","i","b","e","f","l","o","w">>),
    type |-> Str(<<"l","e","s","s","o","n">>),
    title |-> Str(<<"A","g","e","n","t"," ","L","o","o","p"," ","P","r","e","v","e","n","t","i","o","n">>),
    summary |-> Str(<<"P","r","e","v","e","n","t","s"," ","r","e","c","u","r","s","i","v","e"," ","a","g","e","n","t"," ","t","a","s","k"," ","f","a","i","l","u","r","e","s"," ","i","n"," ","a","g","e","n","t"," ","p","i","p","e","l","i","n","e","s","."," ","(","L","o","c","a","l"," ","f","a","l","l","b","a","c","k",")">>),
    tags |-> Arr(<<Str(<<"a","g","e","n","t">>), Str(<<"l","o","o","p">>),
                   Str(<<"s","a","f","e","t","y">>)>>),
    date |-> Str(<<"2","0","2","5","-","0","9","-","1","7">>),
    links |-> Arr(<<Str(<<"h","t","t","p","s",":","/","/","g","i","t","h","u","b",".","c","o","m","/","V","i","b","e","s","T","r","i","b","e","/","k","n","o","w","l","e","d","g","e","b","a","s","e","/","b","l","o","b","/","m","a","i","n","/","a","g","e","n","t","s","/","l","o","o","p","-","g","u","a","r","d",".","m","d">>)>>)
  ])>>)

\* 'Online data unavailable - showing fallback data.'
FallbackMessage ==
  Str(<<"O","n","l","i","n","e"," ","d","a","t","a"," ","u","n","a","v","a","i","l","a","b","l","e"," ","-"," ","s","h","o","w","i","n","g"," ","f","a","l","l","b","a","c","k"," ","d","a","t","a",".">>)

\* `item_${i}`
DefaultId(i) == Str(<<"i","t","e","m","_">> \o NumStr(i))

\* NormalizeItem taking links from url alone
NormalizeItemUrlOnly(x, i) ==
  Obj([id |-> JSString(Coalesce(Get(x, "id"), DefaultId(i))),
       project |-> JSString(Coalesce(Get(x, "project"),
                                     Str(<<"G","e","n","e","r","a","l">>))),
       type |-> Coalesce(Get(x, "type"), Undef),
       title |-> JSString(Coalesce(Get(x, "title"),
                                   Str(<<"U","n","t","i","t","l","e","d">>))),
       summary |-> Coalesce(Get(x, "summary"), Undef),
       tags |-> IF IsArray(Get(x, "tags")) THEN Get(x, "tags") ELSE Arr(<<>>),
       date |-> Coalesce(Get(x, "date"), Undef),
       links |-> IF Truthy(Get(x, "url")) THEN Arr(<<Get(x, "url")>>)
                 ELSE Arr(<<>>)])

\* the callback of items.map in normalize: x the record, i its 0-based index
NormalizeItem(x, i) ==
  Obj([id |-> JSString(Coalesce(Get(x, "id"), DefaultId(i))),
       project |-> JSString(Coalesce(Get(x, "project"),
                                     Str(<<"G","e","n","e","r","a","l">>))),
       type |-> Coalesce(Get(x, "type"), Undef),
       title |-> JSString(Coalesce(Get(x, "title"),
                                   Str(<<"U","n","t","i","t","l","e","d">>))),
       summary |-> Coalesce(Get(x, "summary"), Undef),
       tags |-> IF IsArray(Get(x, "tags")) THEN Get(x, "tags") ELSE Arr(<<>>),
       date |-> Coalesce(Get(x, "date"), Undef),
       links |-> IF IsArray(Get(x, "links")) THEN Get(x, "links")
                 ELSE IF Truthy(Get(x, "url")) THEN Arr(<<Get(x, "url")>>)
                 ELSE Arr(<<>>)])

\* items || []
OrEmpty(v) == IF Truthy(v) THEN v ELSE Arr(<<>>)

\* normalize raises a TypeError: .map is missing on a value that is no
\* array, and x.id cannot be read of a null or undefined element
NormalizeThrows(v) ==
  \/ ~IsArray(OrEmpty(v))
  \/ \E i \in 1..Len(OrEmpty(v).a) : Nullish(OrEmpty(v).a[i])

normalize(v) ==
  Arr([i \in 1..Len(OrEmpty(v).a) |-> NormalizeItem(OrEmpty(v).a[i], i - 1)])

\* Array.isArray(data) ? data : data.items ?? []
\* data.items of null raises a TypeError
ExtractThrows(data) == ~IsArray(data) /\ Nullish(data)

Extract(data) ==
  IF IsArray(data) THEN data ELSE Coalesce(Get(data, "items"), Arr(<<>>))

---------------------------------------------------------------------------
(* src/src/App.tsx: load.  A step of load yields the state cells it       *)
(* leaves: s.items, s.error, s.cache, and what it did: s.outcome, and     *)
(* s.threw, the exception that entered the catch block ("none" if none).  *)

\* the catch block: a cached text that parses is shown, else the fallback
\* record with the message; a cancelled load sets nothing
Catch(cancelled, s, threw) ==
  IF ~cancelled /\ TextTruthy(s.cache) /\ ~JSONParseThrows(s.cache)
  THEN [s EXCEPT !.items = JSONParse(s.cache), !.outcome = "cached",
                 !.threw = threw]
  ELSE IF ~cancelled
  THEN [s EXCEPT !.items = LOCAL_FALLBACK, !.error = FallbackMessage,
                 !.outcome = "fallback", !.threw = threw]
  ELSE [s EXCEPT !.outcome = "dropped", !.threw = threw]

\* AfterJson writing the cache entry on the empty path as well
AfterJsonCachesEmpty(cancelled, s, data, writeFails) ==
  IF ExtractThrows(data) \/ NormalizeThrows(Extract(data))
  THEN Catch(cancelled, s, "shape")
  ELSE LET normalized == normalize(Extract(data))
       IN IF cancelled THEN [s EXCEPT !.outcome = "dropped"]
          ELSE IF writeFails
          THEN Catch(cancelled, [s EXCEPT !.items = normalized], "write")
          ELSE [s EXCEPT !.items = IF Len(normalized.a) # 0 THEN normalized
                                   ELSE LOCAL_FALLBACK,
                         !.cache = JSONStringify(normalized),
                         !.outcome = IF Len(normalized.a) # 0 THEN "stored"
                                     ELSE "empty"]

\* the try block after await res.json() gave data; writeFails: setItem throws
AfterJson(cancelled, s, data, writeFails) ==
  IF ExtractThrows(data) \/ NormalizeThrows(Extract(data))
  THEN Catch(cancelled, s, "shape")
  ELSE LET normalized == normalize(Extract(data))
       IN IF ~cancelled /\ Len(normalized.a) # 0
          THEN IF writeFails
               THEN Catch(cancelled, [s EXCEPT !.items = normalized], "write")
               ELSE [s EXCEPT !.items = normalized,
                              !.cache = JSONStringify(normalized),
                              !.outcome = "stored"]
          ELSE IF ~cancelled
          THEN [s EXCEPT !.items = LOCAL_FALLBACK, !.outcome = "empty"]
          ELSE [s EXCEPT !.outcome = "dropped"]

\* the state cells a step of load starts from
Cells == [items |-> cItems, error |-> cError, cache |-> kb_cache,
          outcome |-> "none", threw |-> "none"]

\* res.ok: a status in 200..299
Ok(status) == status >= 200 /\ status <= 299

\* no step of a load yet
NoStep == [load |-> 0, cancelled |-> FALSE, input |-> "none", body |-> Null,
           writeFails |-> FALSE, outcome |-> "none", threw |-> "none"]

\* what load l was given: input is "reject", "status" (a response that is
\* not ok) or "body" (the text res.json() read)
Given(l, input, body, writeFails) ==
  [NoStep EXCEPT !.load = l, !.cancelled = cLoads[l].cancelled,
                 !.input = input, !.body = body, !.writeFails = writeFails]

\* the step leaves the cells s; load l is over
Commit(l, s, given) ==
  /\ cItems' = s.items
  /\ cError' = s.error
  /\ kb_cache' = s.cache
  /\ cLast' = [given EXCEPT !.outcome = s.outcome, !.threw = s.threw]
  /\ cLoads' = [cLoads EXCEPT ![l].pc = "done"]
  /\ UNCHANGED <<refreshVars, pureVars, uiVars>>

---------------------------------------------------------------------------
(* Inputs of the caching loader: records, response bodies, cache texts *)

RecFull ==
  Obj([id |-> Str(<<"a">>), project |-> Str(<<"P">>), title |-> Str(<<"T">>),
       summary |-> Str(<<"s">>), tags |-> Arr(<<Str(<<"x">>)>>),
       date |-> Str(<<"2","0","2","5">>), links |-> Arr(<<Str(<<"l">>)>>)])

RecUrl == Obj([id |-> Num(7), title |-> Str(<<"U">>), url |-> Str(<<"u">>)])

RecBlank == Obj([id |-> Str(<<>>), title |-> Str(<<>>)])

\* what res.json() can resolve to
CacheBodies ==
  { Arr(<<RecFull, RecUrl>>), Arr(<<EmptyObj>>), Arr(<<RecBlank>>), Arr(<<>>),
    Obj([items |-> Arr(<<RecFull>>)]),
    Obj([bookmarks |-> Arr(<<RecFull>>)]),
    Obj([items |-> Num(5)]), Null, Num(42) }

\* how the fetch settles: it rejects, or resolves to a response
CacheOutcomes ==
  {[kind |-> "reject"]}
  \cup {[kind |-> "response", status |-> st] : st \in {200, 404, 500}}

\* the body of a response: a text that parses to one of the bodies, or not
CacheBodyTexts == {BadText(<<"<">>)} \cup {JsonText(b) : b \in CacheBodies}

\* what the 'kb_cache' entry can hold when the page opens
CacheTexts ==
  { Null, BadText(<<>>), BadText(<<"{">>), JsonText(Null), JsonText(Num(42)),
    JSONStringify(normalize(Arr(<<RecFull, RecUrl>>))),
    JSONStringify(normalize(Arr(<<RecUrl>>))) }

---------------------------------------------------------------------------
(* The caching loader's steps *)

\* the state after useState, before the mount effect
InitCache ==
  /\ cItems = Null
  /\ cError = Null
  /\ kb_cache \in CacheTexts
  /\ cLoads = <<>>
  /\ cLast = NoStep

\* a load starts: cancelled = false, setError(null), the fetch is issued
StartLoad ==
  /\ cLoads' = Append(cLoads, [cancelled |-> FALSE, pc |-> "fetch"])
  /\ cError' = Null
  /\ UNCHANGED <<cItems, kb_cache, cLast, refreshVars, pureVars, uiVars>>

\* the mount effect runs
Mount ==
  /\ cLoads = <<>>
  /\ StartLoad

\* React.StrictMode runs the mount effect's cleanup and the effect again,
\* before anything else happens
StrictRemount ==
  /\ Len(cLoads) = 1
  /\ cLoads[1].pc = "fetch"
  /\ ~cLoads[1].cancelled
  /\ cLoads' = <<[cLoads[1] EXCEPT !.cancelled = TRUE],
                 [cancelled |-> FALSE, pc |-> "fetch"]>>
  /\ cError' = Null
  /\ UNCHANGED <<cItems, kb_cache, cLast, refreshVars, pureVars, uiVars>>

\* the component unmounts: the effect's cleanup sets cancelled
Unmount ==
  /\ cLoads # <<>>
  /\ ~cLoads[Len(cLoads)].cancelled
  /\ cLoads' = [cLoads EXCEPT ![Len(cLoads)].cancelled = TRUE]
  /\ UNCHANGED <<cItems, cError, kb_cache, cLast, refreshVars, pureVars,
                 uiVars>>

\* await fetch(...) settles for load l
FetchSettles(l, r) ==
  /\ cLoads[l].pc = "fetch"
  /\ IF r.kind = "reject"
     THEN Commit(l, Catch(cLoads[l].cancelled, Cells, "network"),
                 Given(l, "reject", Null, FALSE))
     ELSE IF ~Ok(r.status)
     THEN Commit(l, Catch(cLoads[l].cancelled, Cells, "http"),
                 Given(l, "status", Null, FALSE))
     ELSE /\ cLoads' = [cLoads EXCEPT ![l].pc = "json"]
          /\ UNCHANGED <<cItems, cError, kb_cache, cLast, refreshVars,
                         pureVars, uiVars>>

\* await res.json() settles for load l, body the text of the response;
\* writeFails: localStorage.setItem throws (the quota is exceeded)
JsonSettles(l, body, writeFails) ==
  /\ cLoads[l].pc = "json"
  /\ IF JSONParseThrows(body)
     THEN Commit(l, Catch(cLoads[l].cancelled, Cells, "json"),
                 Given(l, "body", body, FALSE))
     ELSE Commit(l, AfterJson(cLoads[l].cancelled, Cells, JSONParse(body),
                              writeFails),
                 Given(l, "body", body, writeFails))

NextCache ==
  \/ Mount
  \/ StrictRemount
  \/ Unmount
  \/ \E l \in 1..Len(cLoads), r \in CacheOutcomes : FetchSettles(l, r)
  \/ \E l \in 1..Len(cLoads), b \in CacheBodyTexts, w \in BOOLEAN :
       JsonSettles(l, b, w)

---------------------------------------------------------------------------
(* src/unnamed/part_004: the load effect's data path *)

Whitespace == {" ", "\t", "\n"}

RECURSIVE TrimStart(_)
TrimStart(s) ==
  IF s # <<>> /\ Head(s) \in Whitespace THEN TrimStart(Tail(s)) ELSE s

RECURSIVE TrimEnd(_)
TrimEnd(s) ==
  IF s # <<>> /\ s[Len(s)] \in Whitespace
  THEN TrimEnd(SubSeq(s, 1, Len(s) - 1)) ELSE s

\* String.prototype.trim
Trim(s) == TrimEnd(TrimStart(s))

\* v?.f
OptGet(v, f) == IF Nullish(v) THEN Undef ELSE Get(v, f)

\* Array.isArray(data) ? data : Array.isArray(data?.bookmarks) ? data.bookmarks : []
Collection(data) ==
  IF IsArray(data) THEN data
  ELSE IF IsArray(OptGet(data, "bookmarks")) THEN Get(data, "bookmarks")
  ELSE Arr(<<>>)

\* entry?.title && entry?.link
HasTitleAndLink(entry) ==
  Truthy(OptGet(entry, "title")) /\ Truthy(OptGet(entry, "link"))

\* typeof tag === "string" && tag.trim()
GoodTag(tag) == tag.k = "string" /\ Trim(tag.s) # <<>>

\* { ...entry, tags: Array.isArray(entry.tags) ? entry.tags.filter(...) : [] }
\* (Array.prototype.filter is SelectSeq)
CleanEntry(entry) ==
  LET own == IF entry.k = "object" THEN DOMAIN entry.p ELSE {}
      tags == IF IsArray(Get(entry, "tags"))
              THEN Arr(SelectSeq(Get(entry, "tags").a, GoodTag))
              ELSE Arr(<<>>)
  IN Obj([f \in own \cup {"tags"} |-> IF f = "tags" THEN tags ELSE entry.p[f]])

\* collection.filter(...).map(...)
Cleaned(data) ==
  LET kept == SelectSeq(Collection(data).a, HasTitleAndLink)
  IN Arr([i \in 1..Len(kept) |-> CleanEntry(kept[i])])

\* `HTTP ${response.status}`
HttpMessage(status) == Str(<<"H","T","T","P"," ">> \o NumStr(status))

\* err?.message ?? "Failed to load knowledgebase"
ErrorMessage(message) ==
  Coalesce(message,
           Str(<<"F","a","i","l","e","d"," ","t","o"," ","l","o","a","d"," ","k","n","o","w","l","e","d","g","e","b","a","s","e">>))


---------------------------------------------------------------------------
(* src/unnamed/part_004: the load effect.  A step of a load yields the    *)
(* state cells it leaves and s.outcome, what it did.  ld is the load's    *)
(* record: its canceled flag and its controller's signal.aborted.         *)

\* finally { if (!canceled) setLoading(false) }
Finally(ld, s) == IF ~ld.canceled THEN [s EXCEPT !.loading = FALSE] ELSE s

\* RCatch without its finally clause
RCatchWithoutFinally(ld, s, message) ==
  IF ld.aborted \/ ld.canceled THEN s
  ELSE [s EXCEPT !.error = ErrorMessage(message), !.outcome = "failed"]

\* the catch block, then finally
RCatch(ld, s, message) ==
  Finally(ld,
    IF ld.aborted \/ ld.canceled THEN s
    ELSE IF ~ld.canceled
    THEN [s EXCEPT !.error = ErrorMessage(message), !.outcome = "failed"]
    ELSE s)

\* new Date() at clock reading t
Date(t) == [k |-> "date", t |-> t]

\* RAfterJson without the canceled checks
RAfterJsonUnchecked(ld, s, data, t) ==
  [s EXCEPT !.items = Cleaned(data), !.lastUpdated = Date(t),
            !.loading = FALSE, !.outcome = "committed"]

\* RAfterJson without its finally clause
RAfterJsonWithoutFinally(ld, s, data, t) ==
  IF ~ld.canceled
  THEN [s EXCEPT !.items = Cleaned(data), !.lastUpdated = Date(t),
                 !.outcome = "committed"]
  ELSE s

\* the try block after await response.json() gave data, then finally
RAfterJson(ld, s, data, t) ==
  Finally(ld,
    IF ~ld.canceled
    THEN [s EXCEPT !.items = Cleaned(data), !.lastUpdated = Date(t),
                   !.outcome = "committed"]
    ELSE s)

RCells == [items |-> items, error |-> error, loading |-> loading,
           lastUpdated |-> lastUpdated, outcome |-> "dropped"]

\* the clock after a step that left the cells s: read once if the step
\* recorded a date
Clock(s) == IF s.lastUpdated # lastUpdated THEN now + 1 ELSE now

\* no step of a load yet
RNoStep == [load |-> 0, canceled |-> FALSE, input |-> "none", body |-> Null,
            outcome |-> "none"]

\* what load l was given: input is "reject", "abort", "status" or "body"
RGiven(l, input, body) ==
  [RNoStep EXCEPT !.load = l, !.canceled = loads[l].canceled,
                  !.input = input, !.body = body]

RCommit(l, s, given) ==
  /\ items' = s.items
  /\ error' = s.error
  /\ loading' = s.loading
  /\ lastUpdated' = s.lastUpdated
  /\ now' = Clock(s)
  /\ last' = [given EXCEPT !.outcome = s.outcome]
  /\ loads' = [loads EXCEPT ![l].pc = "done"]
  /\ UNCHANGED <<cacheVars, pureVars, uiVars>>

---------------------------------------------------------------------------
(* Inputs of the refreshing loader *)

BmFull ==
  Obj([id |-> Num(1), title |-> Str(<<"T">>), link |-> Str(<<"l">>),
       tags |-> Arr(<<Str(<<"x">>), Str(<<" ">>), Num(3)>>),
       created |-> Str(<<"2","0","2","5">>), collection |-> Str(<<"c">>)])

BmNoId == Obj([title |-> Str(<<"N">>), link |-> Str(<<"m">>)])

BmNoLink == Obj([id |-> Num(2), title |-> Str(<<"K">>)])

RefreshBodies ==
  { Arr(<<BmFull, BmNoId>>), Arr(<<BmNoId>>), Arr(<<BmNoLink, Null>>),
    Arr(<<>>),
    Obj([bookmarks |-> Arr(<<BmFull, BmNoId>>)]),
    Obj([bookmarks |-> Num(5)]),
    Obj([items |-> Arr(<<BmFull>>)]),
    Null }

\* how a fetch settles: it rejects (a network error whose message may be
\* missing, or the AbortError of an aborted signal) or resolves
RefreshOutcomes ==
  {[kind |-> "reject", message |-> m] :
     m \in {Str(<<"F","a","i","l","e","d"," ","t","o"," ","f","e","t","c","h">>),
            Undef}}
  \cup {[kind |-> "abort", message |-> Str(<<"a","b","o","r","t","e","d">>)]}
  \cup {[kind |-> "response", status |-> st] : st \in {200, 404, 500}}

\* the body of a response: a text that parses to one of the bodies, or not
RefreshBodyTexts == {BadText(<<"<">>)} \cup {JsonText(b) : b \in RefreshBodies}

\* the message of the SyntaxError response.json() rejects with
SyntaxMessage ==
  Str(<<"U","n","e","x","p","e","c","t","e","d"," ","t","o","k","e","n">>)

---------------------------------------------------------------------------
(* The refreshing loader's steps *)

\* the state after useState, before the effects
InitRefresh ==
  /\ items = Arr(<<>>)
  /\ error = Null
  /\ loading = TRUE
  /\ lastUpdated = Null
  /\ reloadToken = 0
  /\ effectToken = 0
  /\ loads = <<>>
  /\ now = 0
  /\ last = RNoStep

\* Cleanup setting the flag and leaving the fetch running
CleanupWithoutAbort(ls) ==
  IF ls = <<>> THEN ls ELSE [ls EXCEPT ![Len(ls)].canceled = TRUE]

\* the previous effect's cleanup: canceled = true; controller.abort()
Cleanup(ls) ==
  IF ls = <<>> THEN ls
  ELSE [ls EXCEPT ![Len(ls)].canceled = TRUE, ![Len(ls)].aborted = TRUE]

\* the load effect's body up to its first await: a controller and a flag
\* of its own, setLoading(true), setError(null), the fetch is issued
RunEffect ==
  /\ loads' = Append(Cleanup(loads),
                     [canceled |-> FALSE, aborted |-> FALSE, pc |-> "fetch",
                      before |-> [items |-> items,
                                  lastUpdated |-> lastUpdated]])
  /\ loading' = TRUE
  /\ error' = Null
  /\ effectToken' = reloadToken
  /\ UNCHANGED <<items, lastUpdated, reloadToken, now, last, cacheVars,
                 pureVars, uiVars>>

\* the effects run at mount
RMount ==
  /\ loads = <<>>
  /\ RunEffect

\* React.StrictMode runs the effect's cleanup and the effect again
RStrictRemount ==
  /\ Len(loads) = 1
  /\ loads[1].pc = "fetch"
  /\ ~loads[1].canceled
  /\ effectToken = reloadToken
  /\ RunEffect

\* reloadToken changed: React runs the cleanup of the last effect, then
\* the effect
LoadEffect ==
  /\ loads # <<>>
  /\ effectToken # reloadToken
  /\ RunEffect

\* the refresh button (disabled while loading) calls handleRefresh
handleRefresh ==
  /\ loads # <<>>
  /\ ~loading
  /\ reloadToken < MaxToken
  /\ reloadToken' = reloadToken + 1
  /\ UNCHANGED <<items, error, loading, lastUpdated, effectToken, loads, now,
                 last, cacheVars, pureVars, uiVars>>

\* the interval set at mount calls handleRefresh
IntervalFires ==
  /\ loads # <<>>
  /\ reloadToken < MaxToken
  /\ reloadToken' = reloadToken + 1
  /\ UNCHANGED <<items, error, loading, lastUpdated, effectToken, loads, now,
                 last, cacheVars, pureVars, uiVars>>

\* await fetch(...) settles for load l; only an aborted fetch rejects
\* with the AbortError
RFetchSettles(l, r) ==
  /\ loads[l].pc = "fetch"
  /\ r.kind = "abort" => loads[l].aborted
  /\ IF r.kind \in {"reject", "abort"}
     THEN RCommit(l, RCatch(loads[l], RCells, r.message),
                  RGiven(l, r.kind, Null))
     ELSE IF ~Ok(r.status)
     THEN RCommit(l, RCatch(loads[l], RCells, HttpMessage(r.status)),
                  RGiven(l, "status", Null))
     ELSE /\ loads' = [loads EXCEPT ![l].pc = "json"]
          /\ UNCHANGED <<items, error, loading, lastUpdated, last, now,
                         cacheVars, pureVars, uiVars>>
  /\ UNCHANGED <<reloadToken, effectToken>>

\* await response.json() settles for load l, body the text of the response
RJsonSettles(l, body) ==
  /\ loads[l].pc = "json"
  /\ IF JSONParseThrows(body)
     THEN RCommit(l, RCatch(loads[l], RCells, SyntaxMessage),
                  RGiven(l, "body", body))
     ELSE RCommit(l, RAfterJson(loads[l], RCells, JSONParse(body), now),
                  RGiven(l, "body", body))
  /\ UNCHANGED <<reloadToken, effectToken>>

NextRefresh ==
  \/ RMount
  \/ RStrictRemount
  \/ LoadEffect
  \/ handleRefresh
  \/ IntervalFires
  \/ \E l \in 1..Len(loads), r \in RefreshOutcomes : RFetchSettles(l, r)
  \/ \E l \in 1..Len(loads), b \in RefreshBodyTexts : RJsonSettles(l, b)

---------------------------------------------------------------------------
(* String methods the views use *)

UpperCase == <<"A","B","C","D","E","F","G","H","I","J","K","L","M",
               "N","O","P","Q","R","S","T","U","V","W","X","Y","Z">>
LowerCase == <<"a","b","c","d","e","f","g","h","i","j","k","l","m",
               "n","o","p","q","r","s","t","u","v","w","x","y","z">>

IsUpper(c) == c \in {UpperCase[i] : i \in 1..26}
IsLower(c) == c \in {LowerCase[i] : i \in 1..26}

\* the lower-case letter of each upper-case letter, and back
LowerOf ==
  [c \in {UpperCase[i] : i \in 1..26} |->
     LowerCase[CHOOSE i \in 1..26 : UpperCase[i] = c]]
UpperOf ==
  [c \in {LowerCase[i] : i \in 1..26} |->
     UpperCase[CHOOSE i \in 1..26 : LowerCase[i] = c]]

LowerChar(c) == IF c \in DOMAIN LowerOf THEN LowerOf[c] ELSE c
UpperChar(c) == IF c \in DOMAIN UpperOf THEN UpperOf[c] ELSE c

\* String.prototype.toLowerCase
ToLowerCase(s) == [i \in 1..Len(s) |-> LowerChar(s[i])]

\* String.prototype.includes
Includes(hay, needle) ==
  \E i \in 0..(Len(hay) - Len(needle)) :
    SubSeq(hay, i + 1, i + Len(needle)) = needle

\* the characters in the order the default collation gives them: white
\* space, punctuation, digits, letters (a letter's two cases together)
CollationOrder == <<"\t", "\n", " ", "_", "-", ",", ".", ":", "/", "(", ")">>
                  \o Digits \o LowerCase

\* the place of each character in the order
WeightOf ==
  [c \in {CollationOrder[i] : i \in 1..Len(CollationOrder)} |->
     CHOOSE i \in 1..Len(CollationOrder) : CollationOrder[i] = c]

\* the primary weight of a character; 0 for one the table does not hold
Weight(c) ==
  IF LowerChar(c) \in DOMAIN WeightOf THEN WeightOf[LowerChar(c)] ELSE 0

\* the strings compared by the characters' primary weights
RECURSIVE PrimaryCompare(_, _)
PrimaryCompare(a, b) ==
  IF a = <<>> /\ b = <<>> THEN 0
  ELSE IF a = <<>> THEN -1
  ELSE IF b = <<>> THEN 1
  ELSE IF Weight(Head(a)) < Weight(Head(b)) THEN -1
  ELSE IF Weight(Head(a)) > Weight(Head(b)) THEN 1
  ELSE PrimaryCompare(Tail(a), Tail(b))

\* strings of equal primary weights compared by case: lower case first
RECURSIVE CaseCompare(_, _)
CaseCompare(a, b) ==
  IF a = <<>> \/ b = <<>> THEN 0
  ELSE IF Head(a) = Head(b) THEN CaseCompare(Tail(a), Tail(b))
  ELSE IF IsLower(Head(a)) THEN -1
  ELSE 1

\* a.localeCompare(b): negative, 0 or positive
LocaleCompare(a, b) ==
  LET primary == PrimaryCompare(a, b)
  IN IF primary # 0 THEN primary ELSE CaseCompare(a, b)

\* where Array.prototype.sort, which is stable, puts x among the sorted
\* keyed entries ks under (a, b) => a.key.localeCompare(b.key): after every
\* entry that does not compare greater
RECURSIVE InsertAscending(_, _)
InsertAscending(ks, x) ==
  IF ks = <<>> THEN <<x>>
  ELSE IF LocaleCompare(Head(ks).key, x.key) > 0 THEN <<x>> \o ks
  ELSE <<Head(ks)>> \o InsertAscending(Tail(ks), x)

RECURSIVE SortAscending(_)
SortAscending(ks) ==
  IF ks = <<>> THEN <<>>
  ELSE InsertAscending(SortAscending(SubSeq(ks, 1, Len(ks) - 1)), ks[Len(ks)])

\* InsertDescending putting x before the entries it compares equal to
RECURSIVE InsertDescendingTiesFirst(_, _)
InsertDescendingTiesFirst(ks, x) ==
  IF ks = <<>> THEN <<x>>
  ELSE IF LocaleCompare(x.key, Head(ks).key) >= 0 THEN <<x>> \o ks
  ELSE <<Head(ks)>> \o InsertDescendingTiesFirst(Tail(ks), x)

\* the same under (a, b) => b.key.localeCompare(a.key)
RECURSIVE InsertDescending(_, _)
InsertDescending(ks, x) ==
  IF ks = <<>> THEN <<x>>
  ELSE IF LocaleCompare(x.key, Head(ks).key) > 0 THEN <<x>> \o ks
  ELSE <<Head(ks)>> \o InsertDescending(Tail(ks), x)

RECURSIVE SortDescending(_)
SortDescending(ks) ==
  IF ks = <<>> THEN <<>>
  ELSE InsertDescending(SortDescending(SubSeq(ks, 1, Len(ks) - 1)),
                        ks[Len(ks)])

\* Array.from(new Set(a)): the first occurrence of each element, in order
RECURSIVE unique(_)
unique(a) ==
  IF a = <<>> THEN <<>>
  ELSE LET front == unique(SubSeq(a, 1, Len(a) - 1))
       IN IF \E i \in 1..Len(front) : front[i] = a[Len(a)] THEN front
          ELSE Append(front, a[Len(a)])

\* the elements of a list of lists, in order
RECURSIVE Flatten(_)
Flatten(a) == IF a = <<>> THEN <<>> ELSE Head(a) \o Flatten(Tail(a))

\* strings.sort((a, b) => a.localeCompare(b))
SortStrings(a) ==
  LET sorted == SortAscending([i \in 1..Len(a) |-> [key |-> a[i]]])
  IN [i \in 1..Len(sorted) |-> sorted[i].key]

---------------------------------------------------------------------------
(* src/unnamed/part_004: the derived lists and the visible subset.  The   *)
(* strings of an item (title, summary, collection, created) are strings   *)
(* or absent, as KBItem declares them.                                    *)

\* COLLECTION_LABELS[lower], undefined without an entry
COLLECTION_LABELS(lower) ==
  CASE lower = <<"v","i","b","e","f","l","o","w">> ->
         Str(<<"V","i","b","e","f","l","o","w">>)
    [] lower = <<"k","n","o","w","l","e","d","g","e","b","a","s","e">> ->
         Str(<<"K","n","o","w","l","e","d","g","e","b","a","s","e">>)
    [] lower = <<"r","e","s","e","a","r","c","h">> ->
         Str(<<"R","e","s","e","a","r","c","h">>)
    [] OTHER -> Undef

\* /^\d+$/.test(s)
AllDigits(s) ==
  /\ s # <<>>
  /\ \A i \in 1..Len(s) : \E d \in 1..10 : Digits[d] = s[i]

\* s.split(/[-_\s]/): cur is the segment being read
RECURSIVE SplitSegments(_, _)
SplitSegments(s, cur) ==
  IF s = <<>> THEN <<cur>>
  ELSE IF Head(s) \in {"-", "_"} \cup Whitespace
  THEN <<cur>> \o SplitSegments(Tail(s), <<>>)
  ELSE SplitSegments(Tail(s), Append(cur, Head(s)))

\* segment.charAt(0).toUpperCase() + segment.slice(1)
Capitalize(segment) ==
  IF segment = <<>> THEN <<>> ELSE <<UpperChar(Head(segment))>> \o Tail(segment)

\* segments.join(" ")
RECURSIVE JoinSpace(_)
JoinSpace(a) ==
  IF a = <<>> THEN <<>>
  ELSE IF Len(a) = 1 THEN a[1]
  ELSE a[1] \o <<" ">> \o JoinSpace(Tail(a))

NonEmptySeq(segment) == segment # <<>>

\* normalizeCollection(value), the characters of the label
normalizeCollection(value) ==
  IF ~Truthy(value) THEN <<"M","i","s","c">>
  ELSE IF Truthy(COLLECTION_LABELS(ToLowerCase(value.s)))
  THEN COLLECTION_LABELS(ToLowerCase(value.s)).s
  ELSE IF AllDigits(value.s)
  THEN <<"C","o","l","l","e","c","t","i","o","n"," ">> \o value.s
  ELSE LET segments == SelectSeq(SplitSegments(value.s, <<>>), NonEmptySeq)
       IN JoinSpace([i \in 1..Len(segments) |-> Capitalize(segments[i])])

\* item.tags ?? [], the strings' characters
TagsOf(item) ==
  LET tags == Coalesce(Get(item, "tags"), Arr(<<>>)).a
  IN [i \in 1..Len(tags) |-> tags[i].s]

\* getTags(items): the trimmed tags that are not empty, each once, sorted
getTags(its) ==
  LET all == Flatten([i \in 1..Len(its.a) |-> TagsOf(its.a[i])])
      trimmed == [i \in 1..Len(all) |-> Trim(all[i])]
  IN SortStrings(unique(SelectSeq(trimmed, NonEmptySeq)))

\* getCollections(items): "All", then the labels, each once, sorted
getCollections(its) ==
  <<<<"A","l","l">>>>
  \o SortStrings(unique([i \in 1..Len(its.a) |->
                           normalizeCollection(Get(its.a[i], "collection"))]))

\* the indexes of items that pass the collection filter, in order
PassesCollection(item, selCollection) ==
  \/ selCollection = Str(<<"A","l","l">>)
  \/ Str(normalizeCollection(Get(item, "collection"))) = selCollection

\* (item.tags ?? []).some((tag) => tag === selectedTag), if (selectedTag)
PassesTag(item, selTag) ==
  \/ ~Truthy(selTag)
  \/ \E i \in 1..Len(TagsOf(item)) : Str(TagsOf(item)[i]) = selTag

\* [item.title, item.summary ?? "", normalizeCollection(...), ...tags]
Haystacks(item) ==
  <<Get(item, "title").s, Coalesce(Get(item, "summary"), Str(<<>>)).s,
    normalizeCollection(Get(item, "collection"))>> \o TagsOf(item)

\* the text filter; q the query as typed
PassesQuery(item, q) ==
  LET trimmedQuery == ToLowerCase(Trim(q.s))
  IN \/ trimmedQuery = <<>>
     \/ \E i \in 1..Len(Haystacks(item)) :
          Includes(ToLowerCase(Haystacks(item)[i]), trimmedQuery)

\* the indexes (in items) of the items that pass the three filters
PassingIndexes(its, q, selTag, selCollection) ==
  SelectSeq([i \in 1..Len(its.a) |-> i],
            LAMBDA i : /\ PassesCollection(its.a[i], selCollection)
                       /\ PassesTag(its.a[i], selTag)
                       /\ PassesQuery(its.a[i], q))

\* result.slice().sort((a, b) => (b.created ?? "").localeCompare(a.created ?? "")),
\* as the indexes in items of the visible items
FilteredIndexes(its, q, selTag, selCollection) ==
  LET passing == PassingIndexes(its, q, selTag, selCollection)
      sorted == SortDescending(
                  [n \in 1..Len(passing) |->
                     [i |-> passing[n],
                      key |-> Coalesce(Get(its.a[passing[n]], "created"),
                                       Str(<<>>)).s]])
  IN [n \in 1..Len(sorted) |-> sorted[n].i]

\* filteredItems
filteredItems(its, q, selTag, selCollection) ==
  LET idx == FilteredIndexes(its, q, selTag, selCollection)
  IN Arr([n \in 1..Len(idx) |-> its.a[idx[n]]])

---------------------------------------------------------------------------
(* src/unnamed/part_004: the filters' steps *)

All == Str(<<"A","l","l">>)

\* the state after useState
InitView ==
  /\ query = Str(<<>>)
  /\ selectedTag = Null
  /\ selectedCollection = All
  /\ tagClicks = <<>>

\* what the search box is given
Queries == {Str(<<>>), Str(<<" ">>), Str(<<" ","L","o","o","p"," ">>),
            Str(<<"z","z">>)}

\* onChange of the search box: setQuery(event.target.value)
setQuery(q) ==
  /\ query' = q
  /\ tagClicks' = <<>>
  /\ UNCHANGED <<selectedTag, selectedCollection, cacheVars, refreshVars,
                 pureVars, darkVars>>

\* onClick of a collection button, shown if there is more than one entry
setSelectedCollection(n) ==
  /\ LET availableCollections == getCollections(items)
     IN /\ Len(availableCollections) > 1
        /\ n \in 1..Len(availableCollections)
        /\ selectedCollection' = Str(availableCollections[n])
  /\ tagClicks' = <<>>
  /\ UNCHANGED <<query, selectedTag, cacheVars, refreshVars, pureVars,
                 darkVars>>

\* Toggle that selects the tag whatever is selected
ToggleAlwaysSelects(current, tag) == tag

\* (current) => (current === tag ? null : tag)
Toggle(current, tag) == IF current = tag THEN Null ELSE tag

\* the visible items, as indexes in items
Visible == FilteredIndexes(items, query, selectedTag, selectedCollection)

\* the tags on the cards of the visible items, as the items hold them
ChipTags ==
  LET shown == Visible
  IN UNION {{Str(TagsOf(items.a[shown[n]])[i]) :
               i \in 1..Len(TagsOf(items.a[shown[n]]))} : n \in 1..Len(shown)}

\* the tags of the tag list above the cards: availableTags
ListTags == LET tags == getTags(items) IN {Str(tags[i]) : i \in 1..Len(tags)}

\* a click on the button of tag; the clicks on one tag in a row are kept
\* with what was shown before the click
ClickTag(tag) ==
  /\ selectedTag' = Toggle(selectedTag, tag)
  /\ tagClicks' =
       LET click == [tag |-> tag, selectedTag |-> selectedTag,
                     items |-> items, visible |-> Visible]
       IN IF Len(tagClicks) = 1 /\ tagClicks[1].tag = tag
             /\ tagClicks[1].items = items
          THEN Append(tagClicks, click)
          ELSE <<click>>
  /\ UNCHANGED <<query, selectedCollection, cacheVars, refreshVars, pureVars,
                 darkVars>>

\* onClick of a button of the tag list
ClickListTag(tag) == tag \in ListTags /\ ClickTag(tag)

\* onClick of a tag chip on a card
ClickChipTag(tag) == tag \in ChipTags /\ ClickTag(tag)

\* onClick of 'Clear tag', shown in the tag list if a tag is selected
ClearTag ==
  /\ getTags(items) # <<>>
  /\ Truthy(selectedTag)
  /\ selectedTag' = Null
  /\ tagClicks' = <<>>
  /\ UNCHANGED <<query, selectedCollection, cacheVars, refreshVars, pureVars,
                 darkVars>>

\* records of the data source for the views
VmLoopTag ==
  Obj([id |-> Num(1), title |-> Str(<<"N","o","t","e","s">>),
       link |-> Str(<<"l">>),
       tags |-> Arr(<<Str(<<"l","o","o","p">>), Str(<<" ","a","i">>)>>),
       created |-> Str(<<"2","0","2","5","-","0","1","-","0","1">>),
       date |-> Str(<<"2","0","2","5","-","0","1","-","0","1">>),
       collection |-> Str(<<"v","i","b","e","f","l","o","w">>),
       project |-> Str(<<"V","i","b","e","f","l","o","w">>)])

VmLoopTitle ==
  Obj([id |-> Num(2),
       title |-> Str(<<"A","g","e","n","t"," ","L","o","o","p"," ","P","r","e","v","e","n","t","i","o","n">>),
       link |-> Str(<<"l">>), summary |-> Str(<<"G","u","a","r","d">>),
       tags |-> Arr(<<Str(<<"a","i">>)>>),
       created |-> Str(<<"2","0","2","5","-","0","6","-","0","1">>),
       date |-> Str(<<"2","0","2","5","-","0","6","-","0","1">>),
       collection |-> Str(<<"m","y","-","n","o","t","e","s">>),
       project |-> Str(<<"M","y"," ","N","o","t","e","s">>)])

VmUndated ==
  Obj([id |-> Num(3), title |-> Str(<<"O","l","d">>), link |-> Str(<<"l">>),
       collection |-> Str(<<"a","l","l">>), project |-> Str(<<"A","l","l">>)])

VmTwin ==
  Obj([id |-> Num(4), title |-> Str(<<"T","w","i","n">>),
       link |-> Str(<<"l">>), summary |-> Null,
       tags |-> Arr(<<Str(<<"A","I">>)>>),
       created |-> Str(<<"2","0","2","5","-","0","1","-","0","1">>),
       date |-> Str(<<"2","0","2","5","-","0","1","-","0","1">>),
       collection |-> Str(<<"4","2">>), project |-> Str(<<"A","I">>)])

VmLoose ==
  Obj([id |-> Num(5), title |-> Str(<<"L","o","o","s","e">>),
       link |-> Str(<<"l">>), created |-> Str(<<>>), date |-> Str(<<>>)])

\* the responses and bodies the loader is given beside the filters
ViewOutcomes == {[kind |-> "response", status |-> st] : st \in {200, 500}}

ViewBodyTexts ==
  {JsonText(Arr(<<VmLoopTag, VmLoopTitle>>)), JsonText(Arr(<<VmUndated>>))}

ViewQueries == {Str(<<>>), Str(<<"z","z">>)}


\* the page of part_004: the loader's steps and the filters' steps
NextView ==
  \/ RMount
  \/ RStrictRemount
  \/ LoadEffect
  \/ handleRefresh
  \/ IntervalFires
  \/ \E l \in 1..Len(loads), r \in ViewOutcomes : RFetchSettles(l, r)
  \/ \E l \in 1..Len(loads), b \in ViewBodyTexts : RJsonSettles(l, b)
  \/ \E q \in ViewQueries : setQuery(q)
  \/ \E n \in 1..Len(getCollections(items)) : setSelectedCollection(n)
  \/ \E tag \in ListTags : ClickListTag(tag)
  \/ \E tag \in ChipTags : ClickChipTag(tag)
  \/ ClearTag

\* 'No bookmarks match the current filters.' is rendered
NoMatchShown == ~loading /\ Len(Visible) = 0

\* the page of part_004 until the first refresh: the mount's load and the
\* filters' steps
NextClicks ==
  \/ RMount
  \/ \E l \in 1..Len(loads), r \in ViewOutcomes : RFetchSettles(l, r)
  \/ \E l \in 1..Len(loads), b \in ViewBodyTexts : RJsonSettles(l, b)
  \/ \E q \in ViewQueries : setQuery(q)
  \/ \E n \in 1..Len(getCollections(items)) : setSelectedCollection(n)
  \/ \E tag \in ListTags : ClickListTag(tag)
  \/ \E tag \in ChipTags : ClickChipTag(tag)
  \/ ClearTag

---------------------------------------------------------------------------
(* src/unnamed/part_004: dark mode.  The page renders, the two effects    *)
(* run in order (under React.StrictMode in development, twice, before the *)
(* next render), and a render applies the setDarkMode calls made so far.  *)

\* String(darkMode)
BoolString(b) ==
  IF b THEN Str(<<"t","r","u","e">>) ELSE Str(<<"f","a","l","s","e">>)

\* what the entry can hold when the page opens
DarkStored ==
  {Null, BoolString(TRUE), BoolString(FALSE), Str(<<"1">>), Str(<<>>)}

\* the state after useState(false), before the effects
InitDark ==
  /\ darkMode = FALSE
  /\ darkUpdates = <<>>
  /\ darkStore \in DarkStored
  /\ darkDeps = Null
  /\ darkPhase = "initial"
  /\ darkBoot \in {[stored |-> darkStore, strict |-> st] : st \in BOOLEAN}
  /\ darkToggled = FALSE

\* the first effect: stored != null => setDarkMode(stored === "true")
ReadStored(stored, updates) ==
  IF ~Nullish(stored)
  THEN Append(updates, [set |-> stored = BoolString(TRUE)])
  ELSE updates

\* the two effects run for the render that showed darkMode
RunDarkEffects ==
  /\ darkUpdates' = ReadStored(darkStore, darkUpdates)
  /\ darkStore' = BoolString(darkMode)
  /\ darkDeps' = darkMode
  /\ UNCHANGED <<darkMode, darkBoot, darkToggled>>

\* the effects run at mount
DarkMount ==
  /\ darkPhase = "initial"
  /\ RunDarkEffects
  /\ darkPhase' = IF darkBoot.strict THEN "remount" ELSE "mounted"
  /\ UNCHANGED <<cacheVars, refreshVars, pureVars, viewVars>>

\* React.StrictMode runs the effects again, with the same render's values
DarkStrictRemount ==
  /\ darkPhase = "remount"
  /\ RunDarkEffects
  /\ darkPhase' = "mounted"
  /\ UNCHANGED <<cacheVars, refreshVars, pureVars, viewVars>>

\* a setDarkMode call applied to the state
RECURSIVE ApplyUpdates(_, _)
ApplyUpdates(value, updates) ==
  IF updates = <<>> THEN value
  ELSE ApplyUpdates(IF "set" \in DOMAIN Head(updates) THEN Head(updates).set
                    ELSE ~value,
                    Tail(updates))

\* the component renders again with the setDarkMode calls applied
DarkRender ==
  /\ darkPhase = "mounted"
  /\ darkUpdates # <<>>
  /\ darkMode' = ApplyUpdates(darkMode, darkUpdates)
  /\ darkUpdates' = <<>>
  /\ UNCHANGED <<darkStore, darkDeps, darkPhase, darkBoot, darkToggled,
                 cacheVars, refreshVars, pureVars, viewVars>>

\* the second effect runs after a render that changed darkMode:
\* localStorage.setItem(DARK_MODE_KEY, String(darkMode))
StoreDarkMode ==
  /\ darkPhase = "mounted"
  /\ darkDeps # darkMode
  /\ darkStore' = BoolString(darkMode)
  /\ darkDeps' = darkMode
  /\ UNCHANGED <<darkMode, darkUpdates, darkPhase, darkBoot, darkToggled,
                 cacheVars, refreshVars, pureVars, viewVars>>

\* onClick of the toggle: setDarkMode((prev) => !prev)
ToggleDarkMode ==
  /\ darkPhase = "mounted"
  /\ Len(darkUpdates) < MaxPending
  /\ darkUpdates' = Append(darkUpdates, [toggle |-> TRUE])
  /\ darkToggled' = TRUE
  /\ UNCHANGED <<darkMode, darkStore, darkDeps, darkPhase, darkBoot,
                 cacheVars, refreshVars, pureVars, viewVars>>

NextDark ==
  \/ DarkMount
  \/ DarkStrictRemount
  \/ DarkRender
  \/ StoreDarkMode
  \/ ToggleDarkMode

---------------------------------------------------------------------------
(* src/src/App.tsx: the project list and the visible subset *)

\* items ?? [], the elements
ItemsOrEmpty(its) == Coalesce(its, Arr(<<>>)).a

\* unique(['All', ...projects]).sort((a, b) => a.localeCompare(b))
projects(its) ==
  SortStrings(unique(<<<<"A","l","l">>>>
                     \o [i \in 1..Len(ItemsOrEmpty(its)) |->
                           Get(ItemsOrEmpty(its)[i], "project").s]))

\* i.project === projectFilter, unless projectFilter is 'All'
PassesProject(item, projectFilter) ==
  \/ projectFilter = Str(<<"A","l","l">>)
  \/ Get(item, "project") = projectFilter

\* the text filter: applied if query.trim() is not empty, with the query
\* lower-cased as typed
MatchesQuery(item, q) ==
  LET lq == ToLowerCase(q.s)
      tags == Coalesce(Get(item, "tags"), Arr(<<>>)).a
  IN \/ Trim(q.s) = <<>>
     \/ Includes(ToLowerCase(Get(item, "title").s), lq)
     \/ Includes(ToLowerCase(Coalesce(Get(item, "summary"), Str(<<>>)).s), lq)
     \/ \E i \in 1..Len(tags) : Includes(ToLowerCase(tags[i].s), lq)

\* the indexes (in items) of the items that pass the two filters
FilterIndexes(its, projectFilter, q) ==
  SelectSeq([i \in 1..Len(ItemsOrEmpty(its)) |-> i],
            LAMBDA i : /\ PassesProject(ItemsOrEmpty(its)[i], projectFilter)
                       /\ MatchesQuery(ItemsOrEmpty(its)[i], q))

\* arr.slice().sort((a, b) => (b.date ?? '').localeCompare(a.date ?? '')),
\* as the indexes in items of the visible items
FilteredByDate(its, projectFilter, q) ==
  LET all == ItemsOrEmpty(its)
      passing == FilterIndexes(its, projectFilter, q)
      sorted == SortDescending(
                  [n \in 1..Len(passing) |->
                     [i |-> passing[n],
                      key |-> Coalesce(Get(all[passing[n]], "date"),
                                       Str(<<>>)).s]])
  IN [n \in 1..Len(sorted) |-> sorted[n].i]

\* filtered
filtered(its, projectFilter, q) ==
  LET idx == FilteredByDate(its, projectFilter, q)
  IN Arr([n \in 1..Len(idx) |-> ItemsOrEmpty(its)[idx[n]]])

-------------------------------------------------------------------------------------------------------------------------------------------------
(* src/unnamed/part_003: the load effect's data path *)

\* x || d
OrElse(v, d) == IF Truthy(v) THEN v ELSE d

\* s.slice(0, 10)
Slice10(s) == SubSeq(s, 1, IF Len(s) < 10 THEN Len(s) ELSE 10)

\* the callback of data.bookmarks.map; b.created is a string when present
MapBookmark(b) ==
  Obj([id |-> JSString(Get(b, "id")),
       project |-> OrElse(Get(b, "collection"),
                          Str(<<"G","e","n","e","r","a","l">>)),
       title |-> Get(b, "title"),
       summary |-> OrElse(Get(b, "summary"), Str(<<>>)),
       tags |-> OrElse(Get(b, "tags"), Arr(<<>>)),
       date |-> IF Truthy(Get(b, "created"))
                THEN Str(Slice10(Get(b, "created").s)) ELSE Str(<<>>),
       links |-> IF Truthy(Get(b, "link")) THEN Arr(<<Get(b, "link")>>)
                 ELSE Arr(<<>>)])

MapBookmarks(a) == Arr([i \in 1..Len(a.a) |-> MapBookmark(a.a[i])])

\* Array.isArray(data) ? data
\*   : Array.isArray(data.bookmarks) ? data.bookmarks.map(...) : []
Part003Items(data) ==
  IF IsArray(data) THEN data
  ELSE IF IsArray(Get(data, "bookmarks"))
  THEN MapBookmarks(Get(data, "bookmarks"))
  ELSE Arr(<<>>)

---------------------------------------------------------------------------
(* The data paths applied to drawn lists of records *)

\* the object with the properties of r that are not undefined
MkObj(r) == Obj([f \in {g \in DOMAIN r : r[g] # Undef} |-> r[f]])

\* a record of the data source: id and title as given; rest "bare" (no
\* other property), "full" (every property, of both field namings) or
\* "url" (a single url, a tags property that is no array)
MkRecord(id, title, rest) ==
  CASE rest = "full" ->
         MkObj([id |-> id, title |-> title, project |-> Str(<<"p">>),
                collection |-> Str(<<"p">>), summary |-> Str(<<"s">>),
                tags |-> Arr(<<Str(<<"x">>)>>),
                date |-> Str(<<"2","0","2","5","-","0","1","-","0","2">>),
                created |-> Str(<<"2","0","2","5","-","0","1","-","0","2","T","0","9">>),
                links |-> Arr(<<Str(<<"l">>)>>), link |-> Str(<<"l">>)])
    [] rest = "url" ->
         MkObj([id |-> id, title |-> title, tags |-> Str(<<"x">>),
                url |-> Str(<<"u">>), link |-> Str(<<"u">>)])
    [] OTHER -> MkObj([id |-> id, title |-> title])

PureRecords ==
  {MkRecord(id, title, rest) :
     id \in {Undef, Null, Str(<<>>), Num(7)},
     title \in {Undef, Str(<<>>), Str(<<"T">>)},
     rest \in {"bare", "full", "url"}}

\* the lists of at most MaxLen records
RECURSIVE ListsUpTo(_)
ListsUpTo(n) ==
  IF n = 0 THEN {<<>>}
  ELSE LET shorter == ListsUpTo(n - 1)
       IN shorter \cup {Append(l, r) : l \in {m \in shorter : Len(m) = n - 1},
                                       r \in PureRecords}

\* the items a load that is not cancelled leaves, in the caching loader,
\* for a body that parsed to data (no cache entry, the write succeeds)
CachingItems(data) ==
  AfterJson(FALSE, [items |-> Null, error |-> Null, cache |-> Null,
                    outcome |-> "none", threw |-> "none"], data, FALSE).items

\* a list is drawn; nothing applied yet
InitPure ==
  /\ raw \in {Arr(l) : l \in ListsUpTo(MaxLen)}
  /\ out = [op |-> "none"]

\* the caching loader is given the list as the body and as its bookmarks
LoadCaching ==
  /\ out' = [op |-> "caching", array |-> CachingItems(raw),
             nested |-> CachingItems(Obj([bookmarks |-> raw]))]
  /\ UNCHANGED <<raw, cacheVars, refreshVars, uiVars>>

\* the refreshing loader is given the list as the body and as its bookmarks
LoadRefreshing ==
  /\ out' = [op |-> "refreshing", array |-> Cleaned(raw),
             nested |-> Cleaned(Obj([bookmarks |-> raw]))]
  /\ UNCHANGED <<raw, cacheVars, refreshVars, uiVars>>

\* the loader of part_003 is given the list as the body and as its bookmarks
LoadPart003 ==
  /\ out' = [op |-> "part_003", array |-> Part003Items(raw),
             nested |-> Part003Items(Obj([bookmarks |-> raw]))]
  /\ UNCHANGED <<raw, cacheVars, refreshVars, uiVars>>

\* normalize is applied to the list, and to its own result
NormalizeTwice ==
  /\ out' = [op |-> "normalize", once |-> normalize(raw),
             twice |-> normalize(normalize(raw))]
  /\ UNCHANGED <<raw, cacheVars, refreshVars, uiVars>>

\* the bookmarks mapping is applied to the list, and to its own result
MapBookmarksTwice ==
  /\ out' = [op |-> "mapBookmarks", once |-> MapBookmarks(raw),
             twice |-> MapBookmarks(MapBookmarks(raw))]
  /\ UNCHANGED <<raw, cacheVars, refreshVars, uiVars>>

NextPure ==
  \/ LoadCaching
  \/ LoadRefreshing
  \/ LoadPart003
  \/ NormalizeTwice
  \/ MapBookmarksTwice

---------------------------------------------------------------------------
(* The views applied to drawn lists of records *)

ViewRecords == {VmLoopTag, VmLoopTitle, VmUndated, VmTwin, VmLoose}

\* the lists of at most n of these records
RECURSIVE ViewListsUpTo(_)
ViewListsUpTo(n) ==
  IF n = 0 THEN {<<>>}
  ELSE LET shorter == ViewListsUpTo(n - 1)
       IN shorter \cup {Append(l, r) : l \in {m \in shorter : Len(m) = n - 1},
                                       r \in ViewRecords}

\* a list is drawn; nothing shown yet
InitFilter ==
  /\ raw \in {Arr(l) : l \in ViewListsUpTo(MaxItems)}
  /\ out = [op |-> "none"]

\* what the search box is given
FilterQueries ==
  Queries \cup {Str(<<"n","o","t","e","s">>)}

\* the tags and collections a button can select
FilterTags == {Null, Str(<<"l","o","o","p">>), Str(<<"a","i">>)}

FilterCollections ==
  {All, Str(<<"V","i","b","e","f","l","o","w">>), Str(<<"M","i","s","c">>)}

\* part_004 loaded the list and shows it under the query and selections
ViewRefreshing(q, tag, col) ==
  /\ out.op = "none"
  /\ out' = [op |-> "part_004", items |-> Cleaned(raw), query |-> q,
             selectedTag |-> tag, selectedCollection |-> col,
             passing |-> PassingIndexes(Cleaned(raw), q, tag, col),
             visible |-> FilteredIndexes(Cleaned(raw), q, tag, col),
             tags |-> getTags(Cleaned(raw)),
             collections |-> getCollections(Cleaned(raw))]
  /\ UNCHANGED <<raw, cacheVars, refreshVars, uiVars>>

\* App.tsx loaded the list and shows it under the query and project filter
ViewCaching(q, projectFilter) ==
  /\ out.op = "none"
  /\ out' = [op |-> "App.tsx", items |-> CachingItems(raw), query |-> q,
             selectedTag |-> Null, selectedCollection |-> projectFilter,
             passing |-> FilterIndexes(CachingItems(raw), projectFilter, q),
             visible |-> FilteredByDate(CachingItems(raw), projectFilter, q),
             tags |-> <<>>,
             collections |-> projects(CachingItems(raw))]
  /\ UNCHANGED <<raw, cacheVars, refreshVars, uiVars>>

NextFilter ==
  \/ \E q \in FilterQueries, tag \in FilterTags, col \in FilterCollections :
       ViewRefreshing(q, tag, col)
  \/ \E q \in FilterQueries, col \in FilterCollections : ViewCaching(q, col)

---------------------------------------------------------------------------
(* Specifications *)

\* the filters and dark mode after useState, before any effect or click;
\* no flag stored
InitUi ==
  InitView /\ InitDark /\ darkBoot = [stored |-> Null, strict |-> FALSE]

\* the caching loader alone
InitC ==
  /\ InitCache /\ InitRefresh /\ InitUi
  /\ raw = Arr(<<>>) /\ out = [op |-> "none"]

SpecCache == InitC /\ [][NextCache]_vars

\* the refreshing loader alone
InitR ==
  /\ InitCache /\ kb_cache = Null
  /\ InitRefresh /\ InitUi
  /\ raw = Arr(<<>>) /\ out = [op |-> "none"]

SpecRefresh == InitR /\ [][NextRefresh]_vars

\* the page of part_004: loader and filters
SpecView == InitR /\ [][NextView]_vars

\* the page of part_004 until the first refresh
SpecClicks == InitR /\ [][NextClicks]_vars

\* the views alone
InitF == InitCache /\ kb_cache = Null /\ InitRefresh /\ InitUi /\ InitFilter

SpecFilter == InitF /\ [][NextFilter]_vars

\* dark mode alone
InitD ==
  /\ InitCache /\ kb_cache = Null
  /\ InitRefresh /\ InitView /\ InitDark
  /\ raw = Arr(<<>>) /\ out = [op |-> "none"]

SpecDark == InitD /\ [][NextDark]_vars

\* some load's fetch or body settles
SettleStep ==
  \/ \E l \in 1..Len(loads), r \in RefreshOutcomes : RFetchSettles(l, r)
  \/ \E l \in 1..Len(loads), b \in RefreshBodyTexts : RJsonSettles(l, b)

\* the refreshing loader where React runs the effects that are due and
\* every fetch issued settles (resolves, rejects or is aborted); the
\* triggers stop, reloadToken being bounded
SpecRefreshFair ==
  /\ InitR
  /\ [][NextRefresh]_vars
  /\ WF_vars(RMount)
  /\ WF_vars(LoadEffect)
  /\ WF_vars(SettleStep)

\* the data paths alone
InitP == InitCache /\ kb_cache = Null /\ InitRefresh /\ InitUi /\ InitPure

SpecPure == InitP /\ [][NextPure]_vars

---------------------------------------------------------------------------
(* Claims about the refreshing loader, under SpecRefresh *)

\* load l takes a step
Steps(l) == loads'[l].pc # loads[l].pc

RFailed(e) ==
  \/ e.input \in {"reject", "status"}
  \/ e.input = "body" /\ JSONParseThrows(e.body)

\* C4: a load that fails (network error, status that is not ok, body that
\* does not parse) and is not superseded leaves items and lastUpdated as
\* they were when it started, sets error to a message and loading to false.
C4_FailedLoadKeepsItems ==
  [][\A l \in 1..Len(loads) :
       (Steps(l) /\ loads'[l].pc = "done" /\ ~loads[l].canceled
          /\ RFailed(last'))
         => /\ items' = loads[l].before.items
            /\ lastUpdated' = loads[l].before.lastUpdated
            /\ error' # Null
            /\ loading' = FALSE]_vars

\* two items loaded earlier are still there beside the error of the load
\* that just failed on a status
C4_Witness ==
  /\ last.load = Len(loads) /\ last.load >= 2
  /\ ~last.canceled /\ last.input = "status"
  /\ Len(items.a) = 2
  /\ lastUpdated # Null
  /\ error # Null
  /\ ~loading

\* the fetch load l issued is neither completed nor aborted
InFlight(l) == loads[l].pc # "done" /\ ~loads[l].aborted

\* C11: in every reachable state, whatever the order of manual refreshes,
\* timer ticks and fetch completions, at most one issued fetch is neither
\* completed nor aborted.
C11_OneFetchInFlight ==
  Cardinality({l \in 1..Len(loads) : InFlight(l)}) <= 1

\* a timer tick started a second load while the first fetch had not
\* settled: the first is aborted, the second the only one in flight
C11_Witness ==
  /\ Len(loads) = 2
  /\ reloadToken = 1
  /\ loads[1].pc = "fetch" /\ loads[1].aborted
  /\ InFlight(2)

\* a trigger (the button or the timer) bumped reloadToken and this step
\* runs the load effect for it
TriggerStartsLoad ==
  /\ loads # <<>>
  /\ effectToken # reloadToken
  /\ Len(loads') = Len(loads) + 1

\* C12 as stated: whenever loading is true it becomes false again (every
\* fetch settling, the triggers stopping), and loading is false whenever a
\* manual or automatic trigger starts a load.
C12_IdleBeforeNextTrigger ==
  /\ loading ~> ~loading
  /\ [][TriggerStartsLoad => ~loading]_vars

\* C12 amended: whenever loading is true it becomes false again (every
\* fetch settling, the triggers stopping); a trigger may start a load while
\* loading is still true, and then the load it supersedes is canceled and
\* aborted and loading stays true until the new load ends.
C12_LoadingReturnsToIdle ==
  /\ loading ~> ~loading
  /\ [][(TriggerStartsLoad /\ loading)
         => /\ loads'[Len(loads)].canceled /\ loads'[Len(loads)].aborted
            /\ loading']_vars

\* a timer tick superseded the second load while it was loading; the third
\* load ended and loading is false
C12_Witness ==
  /\ Len(loads) = 3
  /\ loads[2].before.items = loads[3].before.items
  /\ loads[2].canceled /\ loads[2].pc = "fetch"
  /\ last.load = 3
  /\ ~loading

---------------------------------------------------------------------------
(* Claims about the filters of part_004, under SpecClicks and SpecView *)

\* this step is a click on a tag button
ClickStep == tagClicks' # tagClicks /\ tagClicks' # <<>>

\* the click's effect on the tag filter: a tag is selected when none is
\* active, cleared when it is the active one, and replaces another one;
\* nothing else of the view state changes
ToggleSemantics(tag) ==
  /\ selectedTag' = IF selectedTag = Null THEN tag
                    ELSE IF selectedTag = tag THEN Null
                    ELSE tag
  /\ UNCHANGED <<items, query, selectedCollection>>

\* C13 as stated: a click on a tag selects it when none is active, clears
\* it when it is the active one, replaces a different one, and changes no
\* other view state; two clicks in a row on the same tag, from any state,
\* restore the tag filter and the visible subset of before the first.
C13_ToggleTwiceRestores ==
  [][ClickStep
       => /\ ToggleSemantics(tagClicks'[Len(tagClicks')].tag)
          /\ Len(tagClicks') = 2
               => /\ selectedTag' = tagClicks'[1].selectedTag
                  /\ Visible' = tagClicks'[1].visible]_vars

\* C13 amended: the same for a single click; two clicks in a row on the
\* same tag restore the tag filter and the visible subset of before the
\* first if no tag or that tag was active then, and leave no tag active if
\* a different tag was active.
C13_ToggleTwiceRestoresOwn ==
  [][ClickStep
       => /\ ToggleSemantics(tagClicks'[Len(tagClicks')].tag)
          /\ Len(tagClicks') = 2
               => IF tagClicks'[1].selectedTag \in {Null, tagClicks'[1].tag}
                  THEN /\ selectedTag' = tagClicks'[1].selectedTag
                       /\ Visible' = tagClicks'[1].visible
                  ELSE selectedTag' = Null]_vars

\* a tag was clicked twice with no tag active before: the first click hid
\* an item, the second shows everything again
C13_Witness ==
  /\ Len(tagClicks) = 2
  /\ tagClicks[1].selectedTag = Null
  /\ Len(tagClicks[2].visible) < Len(tagClicks[1].visible)
  /\ selectedTag = Null
  /\ Visible = tagClicks[1].visible

\* C17: the "no matches" message is shown exactly when the collection is
\* not empty and the visible subset is empty: never over an empty
\* collection, and also while a refresh is in progress.
C17_NoMatchIffFilteredOut ==
  NoMatchShown <=> (Len(items.a) > 0 /\ Len(Visible) = 0)

\* C20: after any clicks and reloads the selected category is an entry of
\* the current category list, and the selected tag is null or an entry of
\* the current tag list.
C20_SelectionStaysInLists ==
  /\ \E n \in 1..Len(getCollections(items)) :
       Str(getCollections(items)[n]) = selectedCollection
  /\ selectedTag = Null \/ selectedTag \in ListTags

---------------------------------------------------------------------------
(* Claims about dark mode, under SpecDark *)

\* the mount effects have run, every setDarkMode call is rendered and the
\* storing effect has run for the render
DarkSettled ==
  /\ darkPhase = "mounted"
  /\ darkUpdates = <<>>
  /\ darkDeps = darkMode

\* C18: once the mount effects have run and their updates are rendered, of
\* a single or a double (StrictMode) invocation, and before any toggle, a
\* stored "true" ("false") has given darkMode true (false) and is still
\* stored, and an absent or other stored value has given light mode; and
\* whenever the page has settled, after toggles too, the stored flag is
\* String(darkMode).
C18_DarkModeRoundTrips ==
  DarkSettled =>
    /\ darkStore = BoolString(darkMode)
    /\ ~darkToggled =>
         /\ darkBoot.stored = BoolString(TRUE)
              => (darkMode /\ darkStore = BoolString(TRUE))
         /\ darkBoot.stored = BoolString(FALSE)
              => (~darkMode /\ darkStore = BoolString(FALSE))
         /\ darkBoot.stored \notin {BoolString(TRUE), BoolString(FALSE)}
              => ~darkMode

---------------------------------------------------------------------------
(* Claims about the views, under SpecFilter *)

\* a view was computed
Shown == out.op \in {"part_004", "App.tsx"}

\* the items of the view
ShownItems == ItemsOrEmpty(out.items)

\* the date of an item as its view sorts it: created in part_004, date in
\* App.tsx; empty when missing
DateKey(item) ==
  Coalesce(Get(item, IF out.op = "part_004" THEN "created" ELSE "date"),
           Str(<<>>)).s

\* the characters of a date by their code units
DateChars == <<"-">> \o Digits

DateRank(c) == CHOOSE i \in 1..Len(DateChars) : DateChars[i] = c

\* a < b as strings: by the first character that differs, a prefix first
RECURSIVE StringLess(_, _)
StringLess(a, b) ==
  IF b = <<>> THEN FALSE
  ELSE IF a = <<>> THEN TRUE
  ELSE IF Head(a) = Head(b) THEN StringLess(Tail(a), Tail(b))
  ELSE DateRank(Head(a)) < DateRank(Head(b))

\* C14: the visible subset holds exactly the items that pass the filters,
\* each once, by date descending under string comparison, the items without
\* a date after every dated one, and items of equal date in the order of
\* the collection.
C14_VisibleSortedByDate ==
  Shown =>
    /\ Len(out.visible) = Len(out.passing)
    /\ \A n \in 1..Len(out.passing) :
         \E m \in 1..Len(out.visible) : out.visible[m] = out.passing[n]
    /\ \A m, n \in 1..Len(out.visible) :
         m < n =>
           LET a == DateKey(ShownItems[out.visible[m]])
               b == DateKey(ShownItems[out.visible[n]])
           IN /\ ~StringLess(a, b)
              /\ a = <<>> => b = <<>>
              /\ a = b => out.visible[m] < out.visible[n]

\* items dated 2025-01-01, 2025-06-01 and not at all are shown as
\* 2025-06-01, 2025-01-01, undated
C14_Witness ==
  /\ out.op = "part_004"
  /\ Len(ShownItems) = 3
  /\ Get(ShownItems[1], "created") = Str(<<"2","0","2","5","-","0","1","-","0","1">>)
  /\ Get(ShownItems[2], "created") = Str(<<"2","0","2","5","-","0","6","-","0","1">>)
  /\ Get(ShownItems[3], "created") = Undef
  /\ out.visible = <<2, 1, 3>>

\* the category of an item as its view shows it: the normalized collection
\* in part_004, the project normalize left in App.tsx
CategoryOf(item) ==
  IF out.op = "part_004" THEN normalizeCollection(Get(item, "collection"))
  ELSE Get(item, "project").s

\* the lower-cased, trimmed query is a substring of the lower-cased title,
\* summary, category or of a tag
TextMatches(item, q) ==
  LET needle == ToLowerCase(Trim(q.s))
      tags == Coalesce(Get(item, "tags"), Arr(<<>>)).a
  IN \/ Includes(ToLowerCase(Get(item, "title").s), needle)
     \/ Includes(ToLowerCase(Coalesce(Get(item, "summary"), Str(<<>>)).s),
                 needle)
     \/ Includes(ToLowerCase(CategoryOf(item)), needle)
     \/ \E i \in 1..Len(tags) : Includes(ToLowerCase(tags[i].s), needle)

\* the item passes the category and tag selections of the view
Selected(item) ==
  /\ out.selectedCollection = All
       \/ Str(CategoryOf(item)) = out.selectedCollection
  /\ PassesTag(item, out.selectedTag)

\* C15: an item that passes the selections is visible under a non-blank
\* query q if and only if the lower-cased, trimmed q is a substring of its
\* lower-cased title, summary, category or of one of its tags; under a
\* blank query every such item is visible.
C15_QueryMatchesAnyField ==
  Shown =>
    \A i \in 1..Len(ShownItems) :
      (\E n \in 1..Len(out.visible) : out.visible[n] = i)
        <=> /\ Selected(ShownItems[i])
            /\ Trim(out.query.s) = <<>> \/ TextMatches(ShownItems[i], out.query)

\* C16: the category list holds "All" and each category of the items, each
\* entry once, the categories in ascending order.
C16_CategoryListDistinct ==
  Shown =>
    LET list == out.collections
        categories == {CategoryOf(ShownItems[i]) : i \in 1..Len(ShownItems)}
    IN /\ {list[n] : n \in 1..Len(list)} = {All.s} \cup categories
       /\ \A m, n \in 1..Len(list) : m # n => list[m] # list[n]
       /\ \A m, n \in 1..Len(list) :
            (m < n /\ list[m] # All.s /\ list[n] # All.s)
              => LocaleCompare(list[m], list[n]) < 0

\* the item carries a tag whose trimmed value is t
CarriesTrimmed(item, t) ==
  \E i \in 1..Len(TagsOf(item)) : Trim(TagsOf(item)[i]) = t

\* C21: in part_004, with a tag t of the derived tag list selected, the
\* category "All" and an empty query, every item that carries a tag whose
\* trimmed value is t is visible, so the visible subset is not empty, also
\* when the stored tag has leading or trailing whitespace.
C21_ListTagShowsItsItems ==
  ( /\ out.op = "part_004"
    /\ out.selectedCollection = All
    /\ out.query = Str(<<>>)
    /\ \E n \in 1..Len(out.tags) : Str(out.tags[n]) = out.selectedTag )
  => /\ \A i \in 1..Len(ShownItems) :
          CarriesTrimmed(ShownItems[i], out.selectedTag.s)
            => \E n \in 1..Len(out.visible) : out.visible[n] = i
     /\ Len(out.visible) > 0

---------------------------------------------------------------------------
(* Claims about the caching loader, under SpecCache *)

\* the 'kb_cache' entry holds a collection of at least one item
CacheHoldsCollection ==
  /\ kb_cache # Null
  /\ kb_cache.valid
  /\ IsArray(kb_cache.v)
  /\ kb_cache.v.a # <<>>

\* C2: after a load that was not cancelled got a status that is not ok while
\* 'kb_cache' held a collection, items are that collection and error is set.
C2_HttpErrorShowsCacheAndError ==
  (cLast.input = "status" /\ ~cLast.cancelled /\ CacheHoldsCollection)
    => (cItems = JSONParse(kb_cache) /\ cError # Null)

\* the text parses to a list the loader finds empty
EmptyResult(b) ==
  /\ b.valid
  /\ ~ExtractThrows(b.v)
  /\ ~NormalizeThrows(Extract(b.v))
  /\ normalize(Extract(b.v)).a = <<>>

\* C3: after a load that was not cancelled fetched an empty list, items are
\* the last known good state (no items were in memory before the load, so
\* the cached collection if there is one, else the built-in record) and
\* error is set.
C3_EmptyFallsBackWithError ==
  (cLast.input = "body" /\ ~cLast.cancelled /\ EmptyResult(cLast.body))
    => /\ cItems = IF CacheHoldsCollection THEN JSONParse(kb_cache)
                   ELSE LOCAL_FALLBACK
       /\ cError # Null

\* load l ends in this step
Ends(l) == cLoads[l].pc # "done" /\ cLoads'[l].pc = "done"

\* what the load was given makes a successful, non-cancelled, non-empty load
GoodLoad(e) ==
  /\ e.input = "body"
  /\ ~e.cancelled
  /\ e.body.valid
  /\ ~ExtractThrows(e.body.v)
  /\ ~NormalizeThrows(Extract(e.body.v))
  /\ normalize(Extract(e.body.v)).a # <<>>

Snapshot(e) == JSONStringify(normalize(Extract(JSONParse(e.body))))

C6_LoadEndsVisible ==
  (cLast.load # 0 /\ ~cLast.cancelled) => IsArray(cItems)

NonEmptyString(v) == v.k = "string" /\ v.s # <<>>

\* the text parses to an array of records
ArrayOfRecords(b) ==
  /\ b.valid
  /\ IsArray(b.v)
  /\ \A i \in 1..Len(b.v.a) : b.v.a[i].k = "object"

\* C7: after a load that was not cancelled fetched an array of records, every
\* item of the collection has a non-empty id and a non-empty title.
C7_ItemsHaveIdAndTitle ==
  (cLast.input = "body" /\ ~cLast.cancelled /\ ~cLast.writeFails
     /\ ArrayOfRecords(cLast.body))
    => /\ IsArray(cItems)
       /\ \A i \in 1..Len(cItems.a) :
            /\ NonEmptyString(Get(cItems.a[i], "id"))
            /\ NonEmptyString(Get(cItems.a[i], "title"))

\* neither an array nor an object whose items or bookmarks is an array
OtherShape(data) ==
  /\ ~IsArray(data)
  /\ ~IsArray(OptGet(data, "items"))
  /\ ~IsArray(OptGet(data, "bookmarks"))

\* C9: a load that was not cancelled and whose body parsed to such a value
\* took the empty-result path: nothing was thrown, the catch block not run.
C9_OtherShapeIsEmptyNotError ==
  (cLast.input = "body" /\ ~cLast.cancelled /\ cLast.body.valid
     /\ OtherShape(cLast.body.v))
    => (cLast.threw = "none" /\ cLast.outcome = "empty")

\* C19: when a load that was not cancelled fetched a list that is not
\* empty and the write of 'kb_cache' threw, the items shown are the fetched,
\* normalized collection (not the older cache entry, not the built-in
\* record) and error is null.
C19_WriteFailureKeepsFreshItems ==
  (GoodLoad(cLast) /\ cLast.writeFails)
    => /\ cItems = normalize(Extract(JSONParse(cLast.body)))
       /\ cError = Null

---------------------------------------------------------------------------
(* Claims about the data paths, under SpecPure *)

\* C8: for every list L, a body { bookmarks: L } gives the same collection
\* as the body L, in each loader.
C8_NestedSameAsArray ==
  out.op \in {"caching", "refreshing", "part_003"} => out.nested = out.array

===========================================================================
